---- MODULE Spec2Model ----
(***************************************************************************)
(* LongT5 attention scaffolding (src/longt5/attention.rs): block padding,  *)
(* block splitting, 3-block concatenation, the relative position grid, the *)
(* local attention mask and the global fixed block ids.                    *)
(*                                                                         *)
(* A tensor is a record [shape, data]: shape is the sequence of dimension  *)
(* sizes, data maps every index tuple (0-based indices, as in the source)  *)
(* to its element.  Boolean tensors hold 1 / 0.  A call that panics (a     *)
(* Rust arithmetic panic or an error raised by the tensor library, which   *)
(* the non-fallible tch methods unwrap) yields Panic.                      *)
(***************************************************************************)
EXTENDS Integers, Sequences, FiniteSets, TLC

\* Bounds of the explored inputs.
MaxBatch == 2
MaxSeq == 4
MaxCfg == 2

VARIABLES attention_mask, call

vars == <<attention_mask, call>>

----------------------------------------------------------------------------
\* Integer arithmetic of the two languages involved.

Abs(a) == IF a < 0 THEN -a ELSE a

\* Rust `/` on i64: truncates toward zero (b /= 0).
TruncDiv(a, b) ==
  IF (a >= 0) = (b > 0) THEN Abs(a) \div Abs(b) ELSE -(Abs(a) \div Abs(b))

\* Rust `%` on i64: remainder with the sign of the dividend (b /= 0).
RustRem(a, b) == a - b * TruncDiv(a, b)

\* Mathematical floor of a / b (b /= 0).
FloorDiv(a, b) == IF b > 0 THEN a \div b ELSE (-a) \div (-b)

\* torch remainder: result has the sign of the divisor (b /= 0).
TorchRemainder(a, b) == a - b * FloorDiv(a, b)

----------------------------------------------------------------------------
\* Tensor values.

Panic == [panic |-> TRUE]

IsPanic(x) == "panic" \in DOMAIN x

Reverse(s) == [k \in 1..Len(s) |-> s[Len(s) + 1 - k]]

RECURSIVE IdxPrefix(_, _)
IdxPrefix(shape, k) ==
  IF k = 0 THEN {<<>>}
  ELSE {Append(s, i) : s \in IdxPrefix(shape, k - 1), i \in 0..(shape[k] - 1)}

Indices(shape) == IdxPrefix(shape, Len(shape))

\* The shape and the data are built eagerly (\o yields an explicit sequence,
\* @@ an explicit function).
MkTensor(shape, F(_)) ==
  [shape |-> shape \o <<>>, data |-> [idx \in Indices(shape) |-> F(idx)] @@ <<>>]

Ndim(x) == Len(x.shape)

HasZero(shape) == \E k \in 1..Len(shape) : shape[k] = 0

HasNegative(shape) == \E k \in 1..Len(shape) : shape[k] < 0

RECURSIVE Numel(_)
Numel(shape) == IF shape = <<>> THEN 1 ELSE Head(shape) * Numel(Tail(shape))

\* Row-major offset of an index tuple, and its inverse.
RECURSIVE Flatten(_, _)
Flatten(idx, shape) ==
  IF shape = <<>> THEN 0
  ELSE Head(idx) * Numel(Tail(shape)) + Flatten(Tail(idx), Tail(shape))

RECURSIVE Unflatten(_, _)
Unflatten(off, shape) ==
  IF shape = <<>> THEN <<>>
  ELSE <<off \div Numel(Tail(shape))>>
       \o Unflatten(off % Numel(Tail(shape)), Tail(shape))

\* Vec::insert(index, element), index 0-based.
VecInsert(v, index, el) ==
  [k \in 1..(Len(v) + 1) |->
     IF k - 1 < index THEN v[k] ELSE IF k - 1 = index THEN el ELSE v[k - 1]]

\* Tensor::zeros / Tensor::empty / Tensor::ones: a negative size is an error.
\* Tensor::empty is only ever used for shapes without elements.
Full(shape, value) ==
  IF HasNegative(shape) THEN Panic ELSE MkTensor(shape, LAMBDA idx : value)

\* Tensor::pad(pad, "constant", value).  pad lists (left, right) pairs from
\* the last dimension backwards; a negative amount crops.
PadLeft(x, pad_, d) == pad_[2 * (Ndim(x) - 1 - d) + 1]

PadRight(x, pad_, d) == pad_[2 * (Ndim(x) - 1 - d) + 2]

TensorPad(x, pad_, value) ==
  LET n == Ndim(x)
      new_shape == [k \in 1..n |->
                      x.shape[k] + PadLeft(x, pad_, k - 1) + PadRight(x, pad_, k - 1)]
      Src(idx) == [k \in 1..n |-> idx[k] - PadLeft(x, pad_, k - 1)]
      InSrc(idx) == \A k \in 1..n : Src(idx)[k] >= 0 /\ Src(idx)[k] < x.shape[k]
  IN IF HasNegative(new_shape) THEN Panic
     ELSE MkTensor(new_shape,
                   LAMBDA idx : IF InSrc(idx) THEN x.data[Src(idx)] ELSE value)

\* Tensor::narrow(dim, start, length).
TensorNarrow(x, dim, start, length) ==
  IF \/ length < 0
     \/ start < 0
     \/ start + length > x.shape[dim + 1]
  THEN Panic
  ELSE MkTensor([x.shape EXCEPT ![dim + 1] = length],
                LAMBDA idx : x.data[[idx EXCEPT ![dim + 1] = @ + start]])

\* Tensor::cat of three tensors along dim.
TensorCat3(a, b, c, dim) ==
  LET Same(u, v) == /\ Ndim(u) = Ndim(v)
                    /\ \A k \in 1..Ndim(u) : k = dim + 1 \/ u.shape[k] = v.shape[k]
      na == a.shape[dim + 1]
      nb == b.shape[dim + 1]
  IN IF ~(Same(a, b) /\ Same(a, c)) THEN Panic
     ELSE MkTensor([a.shape EXCEPT ![dim + 1] = na + nb + c.shape[dim + 1]],
                   LAMBDA idx :
                     IF idx[dim + 1] < na THEN a.data[idx]
                     ELSE IF idx[dim + 1] < na + nb
                          THEN b.data[[idx EXCEPT ![dim + 1] = @ - na]]
                          ELSE c.data[[idx EXCEPT ![dim + 1] = @ - na - nb]])

\* Tensor::reshape to a fully specified shape: sizes below -1 are invalid, a
\* size of -1 asks for inference (not modelled beyond its error cases: the
\* callers only pass -1 next to another negative size), and the number of
\* elements must be preserved.
TensorReshape(x, shape) ==
  IF HasNegative(shape) \/ Numel(shape) # Numel(x.shape) THEN Panic
  ELSE MkTensor(shape, LAMBDA idx : x.data[Unflatten(Flatten(idx, shape), x.shape)])

\* Tensor::unsqueeze(dim); a negative dim counts from the end of the result.
TensorUnsqueeze(x, dim) ==
  LET d == IF dim < 0 THEN dim + Ndim(x) + 1 ELSE dim
      Drop(idx) == [k \in 1..Ndim(x) |-> IF k - 1 < d THEN idx[k] ELSE idx[k + 1]]
  IN MkTensor(VecInsert(x.shape, d, 1), LAMBDA idx : x.data[Drop(idx)])

\* Elementwise binary operation with broadcasting (shapes aligned at the
\* last dimension, a size 1 stretches).
BroadcastShape(s, t) ==
  LET n == IF Len(s) > Len(t) THEN Len(s) ELSE Len(t)
      At(u, k) == IF k - (n - Len(u)) >= 1 THEN u[k - (n - Len(u))] ELSE 1
  IN [k \in 1..n |-> IF At(s, k) = 1 THEN At(t, k) ELSE At(s, k)]

BroadcastIdx(idx, shape) ==
  LET off == Len(idx) - Len(shape)
  IN [k \in 1..Len(shape) |-> IF shape[k] = 1 THEN 0 ELSE idx[k + off]]

Broadcastable(s, t) ==
  LET n == IF Len(s) > Len(t) THEN Len(s) ELSE Len(t)
      At(u, k) == IF k - (n - Len(u)) >= 1 THEN u[k - (n - Len(u))] ELSE 1
  IN \A k \in 1..n : At(s, k) = At(t, k) \/ At(s, k) = 1 \/ At(t, k) = 1

Elementwise2(a, b, Op(_, _)) ==
  IF ~Broadcastable(a.shape, b.shape) THEN Panic
  ELSE MkTensor(BroadcastShape(a.shape, b.shape),
                LAMBDA idx : Op(a.data[BroadcastIdx(idx, a.shape)],
                                b.data[BroadcastIdx(idx, b.shape)]))

Elementwise1(a, Op(_)) == MkTensor(a.shape, LAMBDA idx : Op(a.data[idx]))

\* Tensor::logical_and: nonzero is true, the result holds 1 / 0.
LogicalAnd(a, b) ==
  Elementwise2(a, b, LAMBDA u, v : IF u # 0 /\ v # 0 THEN 1 ELSE 0)

\* Tensor::arange(end): 0, 1, ..., end - 1; a negative end is an error.
TensorArange(end) ==
  IF end < 0 THEN Panic ELSE MkTensor(<<end>>, LAMBDA idx : idx[1])

\* A dimension argument counted from the end when negative.
Dim(x, dim) == IF dim < 0 THEN dim + Ndim(x) ELSE dim

\* Sum and maximum of f[0], ..., f[n].
RECURSIVE SumTo(_, _)
SumTo(f, n) == IF n < 0 THEN 0 ELSE f[n] + SumTo(f, n - 1)

MaxTo(f, n) == CHOOSE m \in {f[j] : j \in 0..n} : \A j \in 0..n : f[j] <= m

\* Tensor::cumsum(dim): inclusive running sum along dim.
TensorCumsum(x, dim) ==
  LET d == Dim(x, dim) + 1
  IN MkTensor(x.shape,
              LAMBDA idx :
                SumTo([j \in 0..idx[d] |-> x.data[[idx EXCEPT ![d] = j]]], idx[d]))

\* Tensor::sum_dim_intlist([-1], false, kind): sum over the last dimension.
TensorSumLast(x) ==
  LET n == x.shape[Ndim(x)]
  IN MkTensor(SubSeq(x.shape, 1, Ndim(x) - 1),
              LAMBDA idx : SumTo([j \in 0..(n - 1) |-> x.data[Append(idx, j)]], n - 1))

\* Tensor::max_dim(-1, false).0: maximum over the last dimension, which
\* must not be empty.
TensorMaxLast(x) ==
  LET n == x.shape[Ndim(x)]
  IN IF n = 0 THEN Panic
     ELSE MkTensor(SubSeq(x.shape, 1, Ndim(x) - 1),
                   LAMBDA idx :
                     MaxTo([j \in 0..(n - 1) |-> x.data[Append(idx, j)]], n - 1))

\* Tensor::repeat(repeats) with at least as many repeats as dimensions.
TensorRepeat(x, repeats) ==
  LET n == Len(repeats)
      off == n - Ndim(x)
      size(k) == IF k > off THEN x.shape[k - off] ELSE 1
  IN IF HasNegative(repeats) THEN Panic
     ELSE MkTensor([k \in 1..n |-> repeats[k] * size(k)],
                   LAMBDA idx : x.data[[k \in 1..Ndim(x) |-> idx[k + off] % size(k + off)]])

\* Tensor::transpose(dim0, dim1).
TensorTranspose(x, dim0, dim1) ==
  LET Swap(s) == [s EXCEPT ![dim0 + 1] = s[dim1 + 1], ![dim1 + 1] = s[dim0 + 1]]
  IN MkTensor(Swap(x.shape), LAMBDA idx : x.data[Swap(idx)])

\* torch where(condition, a, b) with broadcasting.
TensorWhere(condition, a, b) ==
  IF ~(Broadcastable(condition.shape, a.shape)
       /\ Broadcastable(BroadcastShape(condition.shape, a.shape), b.shape))
  THEN Panic
  ELSE MkTensor(BroadcastShape(BroadcastShape(condition.shape, a.shape), b.shape),
                LAMBDA idx :
                  IF condition.data[BroadcastIdx(idx, condition.shape)] # 0
                  THEN a.data[BroadcastIdx(idx, a.shape)]
                  ELSE b.data[BroadcastIdx(idx, b.shape)])

----------------------------------------------------------------------------
\* pad_to_multiple(x, block_length, dim, pad_value)
pad_to_multiple(x, block_length, dim, pad_value) ==
  IF block_length = 0 THEN Panic \* `%` by zero panics
  ELSE
    LET x_size == x.shape
        pad_length == RustRem(-x_size[dim + 1], block_length)
        pad0 == [k \in 1..(2 * Ndim(x)) |-> IF k - 1 = 2 * dim + 1 THEN pad_length ELSE 0]
    IN IF HasZero(x_size)
       THEN Full([x_size EXCEPT ![dim + 1] = @ + pad_length], 0)
       ELSE TensorPad(x, Reverse(pad0), pad_value)

\* split_into_blocks(x, block_length, dim)
split_into_blocks(x, block_length, dim) ==
  IF block_length = 0 THEN Panic \* `%` by zero panics
  ELSE
    LET x_size == x.shape
        x1 == IF RustRem(x_size[dim + 1], block_length) # 0
              THEN pad_to_multiple(x, block_length, dim, 0)
              ELSE x
        num_blocks == TruncDiv(x_size[dim + 1], block_length)
        x_size2 == VecInsert(VecInsert(x_size, dim, block_length), dim, num_blocks)
    IN IF IsPanic(x1) THEN Panic
       ELSE IF HasZero(x_size2) THEN Full(x_size2, 0)
       ELSE TensorReshape(x1, x_size2)

\* Option<f64>: <<>> is None, <<v>> is Some(v).
UnwrapOr(opt, default) == IF opt = <<>> THEN default ELSE opt[1]

\* concatenate_3_blocks(x, block_dim, sequence_dim, pad_value)
concatenate_3_blocks(x, block_dim, sequence_dim, pad_value) ==
  LET x_size == x.shape
      num_blocks == x_size[block_dim + 1]
      pad0 == [k \in 1..(2 * Ndim(x)) |->
                 IF k - 1 = block_dim \/ k - 1 = block_dim + 1 THEN 1 ELSE 0]
      xp == TensorPad(x, Reverse(pad0), UnwrapOr(pad_value, 0))
      block(i) == TensorNarrow(xp, block_dim, i, num_blocks)
  IN IF IsPanic(xp) THEN Panic
     ELSE IF IsPanic(block(0)) \/ IsPanic(block(1)) \/ IsPanic(block(2)) THEN Panic
     ELSE TensorCat3(block(0), block(1), block(2), sequence_dim)

\* Variant of make_3blocks_relative_position_ids whose centre slice starts at
\* 0 instead of block_length.
make_3blocks_relative_position_ids_left_center(block_length) ==
  LET position_ids == TensorArange(3 * block_length)
  IN IF IsPanic(position_ids) THEN Panic
     ELSE
       LET center_position_ids == TensorNarrow(position_ids, 0, 0, block_length)
       IN Elementwise2(TensorUnsqueeze(position_ids, 0),
                       TensorUnsqueeze(center_position_ids, 1),
                       LAMBDA u, v : u - v)

\* make_3blocks_relative_position_ids(block_length)
make_3blocks_relative_position_ids(block_length) ==
  LET position_ids == TensorArange(3 * block_length)
  IN IF IsPanic(position_ids) THEN Panic
     ELSE
       LET center_position_ids ==
             TensorNarrow(position_ids, 0, block_length, block_length)
       IN Elementwise2(TensorUnsqueeze(position_ids, 0),
                       TensorUnsqueeze(center_position_ids, 1),
                       LAMBDA u, v : u - v)

\* mask_local_attention_mask(local_attention_mask, block_length)
mask_local_attention_mask(local_attention_mask, block_length) ==
  LET relative_position_ids == make_3blocks_relative_position_ids(block_length)
  IN IF IsPanic(relative_position_ids) THEN Panic
     ELSE
       LET locality_mask ==
             TensorUnsqueeze(
               TensorUnsqueeze(
                 Elementwise1(relative_position_ids,
                              LAMBDA u : IF Abs(u) < block_length THEN 1 ELSE 0),
                 0),
               0)
       IN LogicalAnd(local_attention_mask, locality_mask)

\* get_local_attention_mask(attention_mask, block_length)
get_local_attention_mask(mask, block_length) ==
  LET blocked_attention_mask == split_into_blocks(mask, block_length, 1)
  IN IF IsPanic(blocked_attention_mask) THEN Panic
     ELSE
       LET three_blocked_attention_mask ==
             concatenate_3_blocks(blocked_attention_mask, 1, 2, <<>>)
       IN IF IsPanic(three_blocked_attention_mask) THEN Panic
          ELSE
            LET pairs == LogicalAnd(TensorUnsqueeze(blocked_attention_mask, -1),
                                    TensorUnsqueeze(three_blocked_attention_mask, -2))
            IN IF IsPanic(pairs) THEN Panic
               ELSE
                 LET local_attention_mask ==
                       mask_local_attention_mask(pairs, block_length)
                 IN IF IsPanic(local_attention_mask) THEN Panic
                    ELSE TensorUnsqueeze(local_attention_mask, 1)

\* Variant of handle_orphan_tokens that leaves the block ids unclamped.
handle_orphan_tokens_unclamped(block_ids, seq_length, global_block_size) ==
  block_ids

\* Variant of handle_orphan_tokens that does not subtract 1 from the count of
\* true block ends.
handle_orphan_tokens_count(block_ids, seq_length, global_block_size) ==
  LET block_ends ==
        Elementwise1(TensorArange(seq_length),
                     LAMBDA p : IF TorchRemainder(p, global_block_size)
                                     = global_block_size - 1 THEN 1 ELSE 0)
      true_block_ends ==
        LogicalAnd(block_ends,
                   Elementwise1(block_ids, LAMBDA u : IF u >= 0 THEN 1 ELSE 0))
      full_blocks == TensorUnsqueeze(TensorSumLast(true_block_ends), -1)
      is_lt == Elementwise2(block_ids, full_blocks,
                            LAMBDA u, v : IF u < v THEN 1 ELSE 0)
  IN TensorWhere(is_lt, full_blocks, full_blocks)

\* The closure handle_orphan_tokens of make_global_fixed_block_ids; it
\* captures seq_length and global_block_size.
handle_orphan_tokens(block_ids, seq_length, global_block_size) ==
  LET block_ends ==
        Elementwise1(TensorArange(seq_length),
                     LAMBDA p : IF TorchRemainder(p, global_block_size)
                                     = global_block_size - 1 THEN 1 ELSE 0)
      true_block_ends ==
        LogicalAnd(block_ends,
                   Elementwise1(block_ids, LAMBDA u : IF u >= 0 THEN 1 ELSE 0))
      full_blocks ==
        Elementwise1(TensorUnsqueeze(TensorSumLast(true_block_ends), -1),
                     LAMBDA u : u - 1)
      is_lt == Elementwise2(block_ids, full_blocks,
                            LAMBDA u, v : IF u < v THEN 1 ELSE 0)
  IN TensorWhere(is_lt, full_blocks, full_blocks)

\* make_global_fixed_block_ids(attention_mask, global_block_size).
\* The real-valued tensor fixed_block_mask only holds multiples of
\* 1 / global_block_size; it is kept as the tensor of their numerators, and
\* the floor is taken of the exact quotient (handle_orphan_tokens only reads
\* the sign of the floored values, which rounding cannot change).
\* A zero global_block_size panics: the integer remainder by zero is an
\* error of the tensor library, and seq_length / 0 a Rust panic.
make_global_fixed_block_ids(mask, global_block_size) ==
  IF global_block_size = 0 THEN Panic
  ELSE
    LET batch_size == mask.shape[1]
        seq_length == mask.shape[2]
        ones_over_size == Elementwise1(mask, LAMBDA u : 1)
        fixed_block_mask ==
          Elementwise2(TensorCumsum(ones_over_size, 1), ones_over_size,
                       LAMBDA u, v : u - v)
        valid_mask == Elementwise1(mask, LAMBDA u : IF u # 0 THEN 1 ELSE -1000)
        floored ==
          Elementwise2(valid_mask, fixed_block_mask,
                       LAMBDA m, f :
                         FloorDiv(m * global_block_size + f - global_block_size,
                                  global_block_size))
        clipped == Elementwise1(floored, LAMBDA u : IF u > -1 THEN u ELSE -1)
        masked == Elementwise2(clipped, mask, LAMBDA u, a : u * a + a - 1)
        global_block_ids == handle_orphan_tokens(masked, seq_length, global_block_size)
        num_globals == TruncDiv(seq_length, global_block_size)
        row_max == TensorMaxLast(global_block_ids)
        sequence_block_ids_max ==
          IF num_globals > 0
          THEN IF IsPanic(row_max) THEN Panic
               ELSE TensorTranspose(TensorRepeat(row_max, <<num_globals, 1>>), 0, 1)
          ELSE Full(<<batch_size, 0>>, 0)
        all_ones == Full(<<batch_size, num_globals>>, 1)
    IN IF IsPanic(sequence_block_ids_max) \/ IsPanic(all_ones) THEN Panic
       ELSE
         LET global_segment_ids ==
               Elementwise2(TensorCumsum(all_ones, -1), sequence_block_ids_max,
                            LAMBDA s, m : IF s <= m THEN 1 ELSE 0)
         IN [ids |-> global_block_ids, segment |-> global_segment_ids]

----------------------------------------------------------------------------
\* Inputs: every non-empty 0/1 validity array of shape [batch, seq_length]
\* within the bounds, configuration values of either sign, two pad values.

Cfg == (-MaxCfg)..MaxCfg

PadValues == {0, 7}

Tensors(shape) ==
  {[shape |-> shape, data |-> d @@ <<>>] : d \in [Indices(shape) -> {0, 1}]}

Inputs == UNION {Tensors(<<b, n>>) : b \in 1..MaxBatch, n \in 1..MaxSeq}

NoCall == [fn |-> "none"]

Init ==
  /\ attention_mask \in Inputs
  /\ call = NoCall

CallPadToMultiple ==
  /\ call = NoCall
  /\ \E block_length \in Cfg, dim \in {0, 1}, pad_value \in PadValues :
       call' = [fn |-> "pad_to_multiple", block_length |-> block_length,
                dim |-> dim, pad_value |-> pad_value,
                result |-> pad_to_multiple(attention_mask, block_length, dim, pad_value)]
  /\ UNCHANGED attention_mask

CallSplitIntoBlocks ==
  /\ call = NoCall
  /\ \E block_length \in Cfg, dim \in {0, 1} :
       call' = [fn |-> "split_into_blocks", block_length |-> block_length,
                dim |-> dim,
                result |-> split_into_blocks(attention_mask, block_length, dim)]
  /\ UNCHANGED attention_mask

\* The argument is the validity array viewed in blocks of block_length,
\* for the block lengths that divide the sequence length.
CallConcatenate3Blocks ==
  /\ call = NoCall
  /\ \E block_length \in 1..MaxCfg, pad_value \in {<<>>} \cup {<<v>> : v \in PadValues} :
       /\ attention_mask.shape[2] % block_length = 0
       /\ LET x == TensorReshape(attention_mask,
                                 <<attention_mask.shape[1],
                                   attention_mask.shape[2] \div block_length,
                                   block_length>>)
          IN call' = [fn |-> "concatenate_3_blocks", x |-> x,
                      pad_value |-> pad_value,
                      result |-> concatenate_3_blocks(x, 1, 2, pad_value)]
  /\ UNCHANGED attention_mask

CallMakeRelativePositionIds ==
  /\ call = NoCall
  /\ \E block_length \in Cfg :
       call' = [fn |-> "make_3blocks_relative_position_ids",
                block_length |-> block_length,
                result |-> make_3blocks_relative_position_ids(block_length)]
  /\ UNCHANGED attention_mask

CallGetLocalAttentionMask ==
  /\ call = NoCall
  /\ \E block_length \in Cfg :
       call' = [fn |-> "get_local_attention_mask", block_length |-> block_length,
                result |-> get_local_attention_mask(attention_mask, block_length)]
  /\ UNCHANGED attention_mask

CallMakeGlobalFixedBlockIds ==
  /\ call = NoCall
  /\ \E global_block_size \in Cfg :
       call' = [fn |-> "make_global_fixed_block_ids",
                global_block_size |-> global_block_size,
                result |-> make_global_fixed_block_ids(attention_mask, global_block_size)]
  /\ UNCHANGED attention_mask

Next ==
  \/ CallPadToMultiple
  \/ CallSplitIntoBlocks
  \/ CallConcatenate3Blocks
  \/ CallMakeRelativePositionIds
  \/ CallGetLocalAttentionMask
  \/ CallMakeGlobalFixedBlockIds

Spec == Init /\ [][Next]_vars

\* The global block assignment alone.
NextGlobal == CallMakeGlobalFixedBlockIds

SpecGlobal == Init /\ [][NextGlobal]_vars

\* The relative position grid alone.
NextRelative == CallMakeRelativePositionIds

SpecRelative == Init /\ [][NextRelative]_vars

----------------------------------------------------------------------------
\* Vocabulary of the properties.

batch == attention_mask.shape[1]

seq_len == attention_mask.shape[2]

Valid(r, p) == attention_mask.data[<<r, p>>] = 1

CeilDiv(a, b) == (a + b - 1) \div b

Min(a, b) == IF a < b THEN a ELSE b

Returned == ~IsPanic(call.result)

CalledGlobal(g) ==
  call.fn = "make_global_fixed_block_ids" /\ call.global_block_size = g

\* Number of valid positions <= p in row r.
ValidCount(r, p) == Cardinality({q \in 0..p : Valid(r, q)})

\* (Number of valid positions of row r that end a raw block of size g) - 1.
Ceiling(r, g) ==
  Cardinality({q \in 0..(seq_len - 1) : Valid(r, q) /\ q % g = g - 1}) - 1

RowMax(t, r) ==
  CHOOSE m \in {t.data[<<r, p>>] : p \in 0..(t.shape[2] - 1)} :
    \A p \in 0..(t.shape[2] - 1) : t.data[<<r, p>>] <= m

RowAllZero(r) == \A p \in 0..(seq_len - 1) : ~Valid(r, p)

RowAllOne(r) == \A p \in 0..(seq_len - 1) : Valid(r, p)

----------------------------------------------------------------------------
\* C1: for block_length L > 0, get_local_attention_mask returns a mask of
\* shape [batch, 1, ceil(N/L), L, 3L] whose entry (r, 0, b, i, j) is true
\* exactly when q = b*L + i and k = (b-1)*L + j both lie in [0, N), both are
\* valid in row r, and |k - q| < L.
LocalEdge(r, b, i, j, L) ==
  LET q == b * L + i
      k == (b - 1) * L + j
  IN /\ q >= 0 /\ q < seq_len
     /\ k >= 0 /\ k < seq_len
     /\ Valid(r, q)
     /\ Valid(r, k)
     /\ Abs(k - q) < L

LocalMaskContract ==
  (call.fn = "get_local_attention_mask" /\ call.block_length > 0) =>
    LET L == call.block_length
    IN /\ Returned
       /\ call.result.shape = <<batch, 1, CeilDiv(seq_len, L), L, 3 * L>>
       /\ \A idx \in Indices(call.result.shape) :
            call.result.data[idx] =
              IF LocalEdge(idx[1], idx[3], idx[4], idx[5], L) THEN 1 ELSE 0

\* C2: for global_block_size G > 0 the returned ids are -1 at invalid
\* positions and min(floor((c - 1) / G), ceiling_r) at valid ones, c being
\* the number of valid positions up to and including p.
GlobalIdsContract ==
  (call.fn = "make_global_fixed_block_ids" /\ call.global_block_size > 0) =>
    LET G == call.global_block_size
    IN /\ Returned
       /\ call.result.ids.shape = <<batch, seq_len>>
       /\ \A r \in 0..(batch - 1), p \in 0..(seq_len - 1) :
            call.result.ids.data[<<r, p>>] =
              IF ~Valid(r, p) THEN -1
              ELSE Min((ValidCount(r, p) - 1) \div G, Ceiling(r, G))

\* C3: for G > 0 the segment mask has shape [batch, floor(N/G)] and entry
\* [r][g] is 1 exactly when g <= max over p of the ids returned for row r.
SegmentMaskContract ==
  (call.fn = "make_global_fixed_block_ids" /\ call.global_block_size > 0) =>
    LET G == call.global_block_size
    IN /\ Returned
       /\ call.result.segment.shape = <<batch, seq_len \div G>>
       /\ \A r \in 0..(batch - 1), g \in 0..((seq_len \div G) - 1) :
            call.result.segment.data[<<r, g>>] =
              IF g <= RowMax(call.result.ids, r) THEN 1 ELSE 0

\* C4: for G > 0 every id returned by make_global_fixed_block_ids, at any
\* row and position, is at most floor(N/G) - 1.
IdsBelowNumGlobals ==
  (call.fn = "make_global_fixed_block_ids" /\ call.global_block_size > 0) =>
    /\ Returned
    /\ \A idx \in DOMAIN call.result.ids.data :
         call.result.ids.data[idx] <= (seq_len \div call.global_block_size) - 1

\* An all-valid row of length 3 with G = 2: position 2 is an orphan and its
\* id is the largest allowed one, floor(3/2) - 1 = 0.
IdsBelowNumGlobalsWitness ==
  /\ CalledGlobal(2)
  /\ batch = 1 /\ seq_len = 3 /\ RowAllOne(0)
  /\ Returned
  /\ call.result.ids.data[<<0, 2>>] = 0

\* C5: for G > 0 and N >= 1, a row that is entirely 0 gets ids -1 at every
\* position and an all-false segment mask row of length floor(N/G), the call
\* does not fail, whatever the other rows hold.
AllInvalidRow ==
  (/\ call.fn = "make_global_fixed_block_ids"
   /\ call.global_block_size > 0
   /\ seq_len >= 1) =>
    \A r \in 0..(batch - 1) :
      RowAllZero(r) =>
        /\ Returned
        /\ \A p \in 0..(seq_len - 1) : call.result.ids.data[<<r, p>>] = -1
        /\ call.result.segment.shape = <<batch, seq_len \div call.global_block_size>>
        /\ \A g \in 0..((seq_len \div call.global_block_size) - 1) :
             call.result.segment.data[<<r, g>>] = 0

\* Two rows of length 4, the first all 0 and the second all 1, G = 2: the
\* second row has an active segment, the first has none.
AllInvalidRowWitness ==
  /\ CalledGlobal(2)
  /\ batch = 2 /\ seq_len = 4 /\ RowAllZero(0) /\ RowAllOne(1)
  /\ Returned
  /\ call.result.ids.data[<<0, 3>>] = -1
  /\ call.result.segment.data[<<0, 0>>] = 0
  /\ call.result.segment.data[<<1, 0>>] = 1

\* C6: get_local_attention_mask with block_length <= 0 and
\* make_global_fixed_block_ids with global_block_size <= 0 never return a
\* result array.
NonPositiveConfigRejected ==
  /\ (call.fn = "get_local_attention_mask" /\ call.block_length <= 0) => ~Returned
  /\ (call.fn = "make_global_fixed_block_ids" /\ call.global_block_size <= 0) =>
       ~Returned

\* C7: for L > 0, split_into_blocks succeeds and replaces dimension dim of
\* size N by [ceil(N/L), L], with ceil(N/L) * L >= N and every original
\* element kept at its block position.
SplitContract ==
  (call.fn = "split_into_blocks" /\ call.block_length > 0) =>
    LET L == call.block_length
        d == call.dim + 1
        N == attention_mask.shape[d]
        num_blocks == CeilDiv(N, L)
        Blocked(idx) ==
          SubSeq(idx, 1, d - 1) \o <<idx[d] \div L, idx[d] % L>>
            \o SubSeq(idx, d + 1, Len(idx))
    IN /\ Returned
       /\ call.result.shape =
            SubSeq(attention_mask.shape, 1, d - 1) \o <<num_blocks, L>>
              \o SubSeq(attention_mask.shape, d + 1, 2)
       /\ num_blocks * L >= N
       /\ \A idx \in DOMAIN attention_mask.data :
            call.result.data[Blocked(idx)] = attention_mask.data[idx]

\* C8: for L > 0, pad_to_multiple returns an array of size ceil(N/L) * L
\* along dim, other dimensions unchanged, holding the original elements at
\* positions 0..N-1 and the pad value after them; it returns x itself when N
\* is a multiple of L.
PadContract ==
  (call.fn = "pad_to_multiple" /\ call.block_length > 0) =>
    LET L == call.block_length
        d == call.dim + 1
        N == attention_mask.shape[d]
    IN /\ Returned
       /\ call.result.shape = [attention_mask.shape EXCEPT ![d] = CeilDiv(N, L) * L]
       /\ \A idx \in DOMAIN call.result.data :
            call.result.data[idx] =
              IF idx[d] < N THEN attention_mask.data[idx] ELSE call.pad_value
       /\ (N % L = 0) => call.result = attention_mask

\* C9: for x of shape [batch, num_blocks, L], concatenate_3_blocks(x, 1, 2,
\* v) has shape [batch, num_blocks, 3L] and its block b is block b-1, block b
\* and block b+1 of x in that order, an all-v block standing for a missing
\* neighbour (v = 0 by default).
ConcatContract ==
  (call.fn = "concatenate_3_blocks") =>
    LET x == call.x
        L == x.shape[3]
        v == UnwrapOr(call.pad_value, 0)
        Source(b, j) == b - 1 + (j \div L)
    IN /\ Returned
       /\ call.result.shape = <<x.shape[1], x.shape[2], 3 * L>>
       /\ \A idx \in Indices(call.result.shape) :
            call.result.data[idx] =
              IF Source(idx[2], idx[3]) >= 0 /\ Source(idx[2], idx[3]) < x.shape[2]
              THEN x.data[<<idx[1], Source(idx[2], idx[3]), idx[3] % L>>]
              ELSE v

\* C10: for L > 0, make_3blocks_relative_position_ids(L) has shape [L, 3L]
\* and holds j - (L + i) at [i][j]; in particular [i][L + i] holds 0.
RelativePositionGrid ==
  (call.fn = "make_3blocks_relative_position_ids" /\ call.block_length > 0) =>
    LET L == call.block_length
    IN /\ Returned
       /\ call.result.shape = <<L, 3 * L>>
       /\ \A i \in 0..(L - 1), j \in 0..(3 * L - 1) :
            call.result.data[<<i, j>>] = j - (L + i)
       /\ \A i \in 0..(L - 1) : call.result.data[<<i, L + i>>] = 0

\* The grid for L = 2: row 1 holds 0 at column 3 and 2 at column 5.
RelativePositionGridWitness ==
  /\ call.fn = "make_3blocks_relative_position_ids"
  /\ call.block_length = 2
  /\ Returned
  /\ call.result.data[<<1, 3>>] = 0
  /\ call.result.data[<<1, 5>>] = 2

====
